---- MODULE Spec2Model ----
(***************************************************************************)
(* Pairs stat-arb bot: the portfolio controller (src/portfolio_bot.py),    *)
(* the top-pair selection (src/scanner.py), the risk gate                  *)
(* (src/mt5_bridge.py) and the polling loop (src/main.py).                 *)
(*                                                                         *)
(* step() is modelled statement group by statement group: pc is the place  *)
(* of the single thread of control, the other lower-case variables are the *)
(* fields of PortfolioStatArbBot / RiskManager and the locals of step(),   *)
(* _live_enter() and _live_exit().  The data feed and the broker gateway   *)
(* are outside the program: what they return is drawn with \E.             *)
(*                                                                         *)
(* Numbers: prices and volumes take no part in any decision modelled here  *)
(* and are left out of Position.  z-scores are in tenths (z_entry = 2.3 is *)
(* 23).  Time is in minutes and advances in quanta of the cooldown length. *)
(***************************************************************************)
EXTENDS Integers, Sequences, FiniteSets, TLC

VARIABLES
    pairs,               \* main(): top, the list passed to every step()
    positions,           \* self.positions, an insertion-ordered dict
    cooldown_until_ts,   \* self.cooldown_until_ts
    halted,              \* self.halted
    consecutive_errors,  \* self.consecutive_errors
    start_equity,        \* RiskManager.start_equity
    now,                 \* time.time(), in minutes
    pc,                  \* where the thread of control is
    todo,                \* step(): the part of pairs_to_check not yet iterated
    cur,                 \* step(): (a, b) of the current iteration
    action,              \* step(): action of the current iteration
    side_a,              \* _live_enter(): side_a
    side_b,              \* _live_enter(): side_b
    attempt,             \* _live_enter(): attempt
    ticket_a,            \* _live_enter(): ticket_a
    ticket_b,            \* _live_enter(): ticket_b
    pnl_a,               \* _live_exit(): pnl_a
    pnl_b,               \* _live_exit(): pnl_b
    calls,               \* broker calls issued so far in the current iteration
    failed_cycles,       \* history: consecutive step() calls that raised, up to MaxErrors
    cycle_failed,        \* history: the current step() call has raised
    cycle,               \* history: the current step() call, what was open and what it evaluated
    args,                \* the arguments of the one function call a unit run makes
    ret                  \* what that call returned

vars == <<pairs, positions, cooldown_until_ts, halted, consecutive_errors,
          start_equity, now, pc, todo, cur, action, side_a, side_b, attempt,
          ticket_a, ticket_b, pnl_a, pnl_b, calls, failed_cycles, cycle_failed,
          cycle, args, ret>>

----------------------------------------------------------------------------
(* Bounds of the model *)

\* number of time quanta the clock may advance
MaxTicks == 2
\* the same in the short run, on the pairs picked from the whole ranking
ShortTicks == 1
\* minutes the clock of the long run goes on past max_hold_minutes
Overrun == 1
\* longest ranked list handed to pick_top_pairs
MaxScored == 10
\* the account equity at startup
StartEquity == 1000
\* unit runs of pick_top_pairs: instruments ranked, longest ranked list, largest k
MaxInstruments == 4
MaxRanked == 3
MaxK == 3
\* unit runs of is_trading_allowed: how far around each limit the amounts go
Margin == 3
\* unit runs of _compute_signal on series: the largest move of a log price
MaxMove == 2

(* Program constants *)

z_entry == 23
z_exit == 5
max_hold_minutes == 240
top_pairs == 5
max_open_positions == 2
max_daily_loss_usd == 250
max_total_drawdown_usd == 500
MinPoints == 120
lookback == 720
beta_window == 720
min_corr == 55
max_vol_ratio == 2
ZWindow == 400
MinBetaPoints == 50
MinZPoints == 50
MinVolPoints == 50
MinCorrPoints == 30
max_retries == 3
CooldownMinutes == 30
MaxErrors == 8

\* cfg.candidates, the head of the default list, in list order
Candidates == <<"BTC/USD", "ETH/USD", "BNB/USD", "SOL/USD", "XRP/USD", "ADA/USD">>

IndexOf(s) == CHOOSE i \in 1..Len(Candidates) : Candidates[i] = s

NoPair == <<"", "">>

\* itertools.combinations(candidates, 2), in the order it yields the pairs
RECURSIVE CombosFrom(_, _)
CombosFrom(i, j) ==
    IF i >= Len(Candidates) THEN <<>>
    ELSE IF j > Len(Candidates) THEN CombosFrom(i + 1, i + 2)
    ELSE <<(<<Candidates[i], Candidates[j]>>)>> \o CombosFrom(i, j + 1)

Combinations == CombosFrom(1, 2)

(* score_pairs sorts by score with a stable sort, so pairs of equal score  *)
(* stay in combinations() order, and its filters cut pairs out.  The       *)
(* ranked lists drawn here are the prefixes of that order, up to a length. *)
ScoredLists(maxlen) ==
    {SubSeq(Combinations, 1, n) : n \in 0..(IF maxlen < Len(Combinations)
                                            THEN maxlen ELSE Len(Combinations))}

----------------------------------------------------------------------------
(* scanner.py: pick_top_pairs *)

\* the two membership tests joined by "and"
Claimed_Both(p, used) == p[1] \in used /\ p[2] \in used

\* line 69
Claimed(p, used) == p[1] \in used \/ p[2] \in used

\* only p.a added to used
Claim_FirstOnly(p, used) == used \cup {p[1]}

\* line 72
Claim(p, used) == used \cup {p[1], p[2]}

RECURSIVE pick_loop(_, _, _, _)
pick_loop(scored, k, picked, used) ==
    IF scored = <<>> THEN picked
    ELSE LET p == Head(scored) IN
         IF Claimed(p, used) THEN pick_loop(Tail(scored), k, picked, used)
         ELSE LET picked2 == Append(picked, p) IN
              IF Len(picked2) >= k THEN picked2
              ELSE pick_loop(Tail(scored), k, picked2, Claim(p, used))

pick_top_pairs(scored, k) == pick_loop(scored, k, <<>>, {})

----------------------------------------------------------------------------
(* The open-position table: a dict, iterated in insertion order *)

Key(pos) == <<pos.a, pos.b>>

Keys(table) == [i \in DOMAIN table |-> Key(table[i])]

HasPosition(table, key) == \E i \in DOMAIN table : Key(table[i]) = key

PositionOf(table, key) == table[CHOOSE i \in DOMAIN table : Key(table[i]) = key]

RECURSIVE Without(_, _)
Without(table, key) ==
    IF table = <<>> THEN <<>>
    ELSE IF Key(Head(table)) = key THEN Without(Tail(table), key)
    ELSE <<Head(table)>> \o Without(Tail(table), key)

\* self.positions[key] = rec: in place when the key is there, else at the end
Put(table, key, rec) ==
    IF HasPosition(table, key)
    THEN [i \in DOMAIN table |-> IF Key(table[i]) = key THEN rec ELSE table[i]]
    ELSE Append(table, rec)

Position(a, b, sa, sb, ts, ta, tb) ==
    [a |-> a, b |-> b, side_a |-> sa, side_b |-> sb, entry_ts |-> ts,
     ticket_a |-> ta, ticket_b |-> tb]

----------------------------------------------------------------------------
(* What the collaborators may answer *)

\* the series lengths the feed may return, around the 120-point minimum
LenVals == {MinPoints - 1, MinPoints}

\* z-scores (tenths) around the entry and exit thresholds
ZTenths == {-(z_entry + 1), -z_entry, -z_exit, 0, z_exit - 1, z_entry, z_entry + 1}

\* account equity and today's realized + floating P&L around the limits
EquityVals == {StartEquity, StartEquity - max_total_drawdown_usd + 1,
               StartEquity - max_total_drawdown_usd}

PnlTodayVals == {0, 1 - max_daily_loss_usd, -max_daily_loss_usd}

\* realized profit of one closed leg
Profits == {-1, 0, 1}

\* an open or close call answers ok, answers not-ok, or raises
Outcomes == {"ok", "fail", "raise"}

\* the ticket the broker gives the leg it opens on an instrument
Ticket(sym) == 100 + IndexOf(sym)

\* whether the feed returned too few points for a leg,
\* how the sizing of the legs ended ("" while no leg has been sized),
\* open calls per leg, the legs _live_enter opened that are still open at the
\* broker, the tickets the close calls were addressed to, and
\* what the close calls of an exit answered
NoCalls == [short |-> FALSE, sizing |-> "", open_a |-> 0, open_b |-> 0,
            live_a |-> 0, live_b |-> 0, closed |-> <<>>, results |-> <<>>]

\* the answer of a close call that returned
Result(res, profit) == [ok |-> res = "ok", profit |-> profit]

\* the polling loop runs: no unit call is under way
NoArgs == [fn |-> "none"]

NoRet == [fn |-> "none"]

----------------------------------------------------------------------------
(* mt5_bridge.py: RiskManager.is_trading_allowed *)

\* the snapshot taken anew by every call
start_equity_after_EveryCall(start, equity) == equity

\* lines 169-170: the snapshot after the call, 0 standing for None
start_equity_after(start, equity) == IF start = 0 THEN equity ELSE start

is_trading_allowed(equity, total_today) ==
    LET start == start_equity_after(start_equity, equity)
        dd == equity - start
    IN  IF dd <= -max_total_drawdown_usd THEN "KILL_SWITCH"
        ELSE IF total_today <= -max_daily_loss_usd THEN "DAILY_LIMIT"
        ELSE "OK"

----------------------------------------------------------------------------
(* utils.py.  A series is a sequence of integers: log prices in a fixed    *)
(* small unit.  Every statistic is kept exact, as a fraction in lowest     *)
(* terms; a z-score, which is a square root, as its sign and its square.   *)

Abs(n) == IF n < 0 THEN -n ELSE n

Sign(n) == IF n < 0 THEN -1 ELSE IF n > 0 THEN 1 ELSE 0

RECURSIVE GCD(_, _)
GCD(m, n) == IF n = 0 THEN m ELSE GCD(n, m % n)

\* p / q in lowest terms, the denominator positive
Frac(p, q) ==
    LET g == GCD(Abs(p), Abs(q))
    IN  [num |-> Sign(q) * (p \div g), den |-> Abs(q) \div g]

\* the float 1.0
One == [num |-> 1, den |-> 1]

\* the float 0.0 as a z-score
Zero == [sgn |-> 0, num |-> 0, den |-> 1]

\* a z-score given in tenths
Tenths(t) == [sgn |-> Sign(t)] @@ Frac(t * t, 100)

\* s[lo] + ... + s[hi], by halves
RECURSIVE SumRange(_, _, _)
SumRange(s, lo, hi) ==
    IF lo > hi THEN 0
    ELSE IF lo = hi THEN s[lo]
    ELSE LET mid == (lo + hi) \div 2
         IN  SumRange(s, lo, mid) + SumRange(s, mid + 1, hi)

Sum(s) == SumRange(s, 1, Len(s))

\* n * sum((a - mean(a)) * (b - mean(b))), for two series of n points
CrossSum(a, b) ==
    Len(a) * Sum([i \in DOMAIN a |-> a[i] * b[i]]) - Sum(a) * Sum(b)

\* Series.tail(n)
tail(s, n) == IF Len(s) <= n THEN s ELSE SubSeq(s, Len(s) - n + 1, Len(s))

\* lines 8-9: logp.diff().dropna()
log_returns(logp) == [i \in 1..(Len(logp) - 1) |-> logp[i + 1] - logp[i]]

\* lines 16-25: np.var has ddof = 0, so varx = sxx / n^2, and cov is taken
\* with ddof = 1, so cov = sxy / (n * (n - 1))
ols_beta(y, x) ==
    IF Len(y) < MinBetaPoints \/ Len(x) < MinBetaPoints THEN One
    ELSE LET n == Len(x)
             sxx == CrossSum(x, x)
             sxy == CrossSum(y, x)
             g == GCD(Abs(sxy), sxx)
         IN  IF sxx = 0 THEN One
             ELSE Frac((sxy \div g) * n, (sxx \div g) * (n - 1))

\* lines 27-34: sd has ddof = 1, so sd^2 = sxx / (n * (n - 1)), and
\* z^2 = (d / n)^2 / sd^2 with d = n * (last - mu)
zscore(series) ==
    IF Len(series) < MinZPoints THEN Zero
    ELSE LET n == Len(series)
             sxx == CrossSum(series, series)
             d == n * series[n] - Sum(series)
             g == GCD(d * d, sxx)
         IN  IF sxx = 0 THEN Zero
             ELSE [sgn |-> Sign(d)] @@ Frac(((d * d) \div g) * (n - 1), n * (sxx \div g))

\* the variance (ddof = 1) behind realized_vol, lines 36-39
realized_var(lr) ==
    IF Len(lr) < MinVolPoints THEN Frac(0, 1)
    ELSE Frac(CrossSum(lr, lr), Len(lr) * (Len(lr) - 1))

\* lines 11-14 and the caller's test corr(a, b) < min_corr; a NaN (a series
\* of no variance) compares False
corr_below(a, b, pct) ==
    IF Len(a) < MinCorrPoints \/ Len(b) < MinCorrPoints THEN 0 < pct
    ELSE LET saa == CrossSum(a, a)
             sbb == CrossSum(b, b)
             sab == CrossSum(a, b)
         IN  IF saa = 0 \/ sbb = 0 THEN FALSE
             ELSE \/ sab < 0 /\ 0 < pct
                  \/ LET r2 == Frac(sab * sab, saa * sbb)
                     IN  sab >= 0 /\ r2.num * 10000 < pct * pct * r2.den

\* z > thr / 10, z < -thr / 10 and abs(z) < thr / 10, for thr > 0
z_above(z, thr) == z.sgn > 0 /\ z.num * 100 > thr * thr * z.den

z_below_minus(z, thr) == z.sgn < 0 /\ z.num * 100 > thr * thr * z.den

z_abs_below(z, thr) == z.num * 100 < thr * thr * z.den

----------------------------------------------------------------------------
(* portfolio_bot.py: _regime_ok and _compute_signal *)

\* lines 53-64, for two series of one length; the floor of 1e-9 under the
\* smaller volatility is below the unit of the series
_regime_ok(la, lb) ==
    LET ra == tail(log_returns(la), ZWindow)
        rb == tail(log_returns(lb), ZWindow)
        va == realized_var(ra)
        vb == realized_var(rb)
        a_is_hi == va.num * vb.den >= vb.num * va.den
        hi == IF a_is_hi THEN va ELSE vb
        lo == IF a_is_hi THEN vb ELSE va
    IN  IF corr_below(ra, rb, min_corr) THEN FALSE
        ELSE IF lo.num = 0 THEN TRUE
        ELSE hi.num * lo.den <= max_vol_ratio * max_vol_ratio * lo.num * hi.den

\* line 79: la - beta * lb, times the denominator of beta
spread(la, lb, beta) == [i \in DOMAIN la |-> beta.den * la[i] - beta.num * lb[i]]

\* the regime filter applied to open pairs too
regime_skip_NoBypass(regime_ok, open) == ~regime_ok

\* line 75
regime_skip(regime_ok, open) == ~regime_ok /\ ~open

\* lines 72-96, on the lengths, the filter's answer and the z-score
\* the held time taken in hours
TimedOut_InHours(held_min) == held_min \div 60 > max_hold_minutes

\* line 92
TimedOut(held_min) == held_min > max_hold_minutes

_compute_signal(key, len_a, len_b, regime_ok, z, t) ==
    IF len_a < MinPoints \/ len_b < MinPoints THEN "SKIP"
    ELSE IF regime_skip(regime_ok, HasPosition(positions, key)) THEN "SKIP"
    ELSE IF ~HasPosition(positions, key)
         THEN IF z_above(z, z_entry) THEN "ENTER_LONGB_SHORTA"
              ELSE IF z_below_minus(z, z_entry) THEN "ENTER_LONGA_SHORTB"
              ELSE "HOLD"
         ELSE LET held_min == t - PositionOf(positions, key).entry_ts IN
              IF TimedOut(held_min) THEN "EXIT"
              ELSE IF z_abs_below(z, z_exit) THEN "EXIT"
              ELSE "HOLD"

\* lines 66-96 on the log prices of the closes the feed returned (two series
\* of one length): what _compute_signal returns
signal_of(key, logp_a, logp_b, t) ==
    LET la == tail(logp_a, lookback)
        lb == tail(logp_b, lookback)
        enough == Len(la) >= MinPoints /\ Len(lb) >= MinPoints
        regime_ok == IF enough THEN _regime_ok(la, lb) ELSE TRUE
        beta == ols_beta(tail(la, beta_window), tail(lb, beta_window))
        z == zscore(tail(spread(la, lb, beta), ZWindow))
        act == IF enough /\ (regime_ok \/ HasPosition(positions, key))
               THEN _compute_signal(key, Len(la), Len(lb), regime_ok, z, t)
               ELSE "SKIP"
    IN  IF act = "SKIP" THEN [action |-> act, z |-> Zero, beta |-> One]
        ELSE [action |-> act, z |-> z, beta |-> beta]

IsEnter(act) == act \in {"ENTER_LONGB_SHORTA", "ENTER_LONGA_SHORTB"}

\* _live_enter, lines 104-105
SideA(act) == IF act = "ENTER_A_LONG" THEN "BUY" ELSE "SELL"

SideB(act) == IF act = "ENTER_A_LONG" THEN "SELL" ELSE "BUY"

----------------------------------------------------------------------------
(* State after construction: main() up to the first bot.step(top) *)

\* no call of step() is past its first check
NoCycle == [open |-> <<>>, evaluated |-> <<>>]

\* no call of step() under way, nothing gone wrong so far
Idle ==
    /\ cooldown_until_ts = 0
    /\ halted = FALSE
    /\ consecutive_errors = 0
    /\ pc = "idle"
    /\ todo = <<>>
    /\ cur = NoPair
    /\ action = ""
    /\ side_a = ""
    /\ side_b = ""
    /\ attempt = 0
    /\ ticket_a = 0
    /\ ticket_b = 0
    /\ pnl_a = 0
    /\ pnl_b = 0
    /\ calls = NoCalls
    /\ failed_cycles = 0
    /\ cycle_failed = FALSE
    /\ cycle = NoCycle

\* PortfolioStatArbBot.__init__, at time 0
Constructed ==
    /\ positions = <<>>
    /\ now = 0
    /\ Idle

InitWith(lists) ==
    /\ \E scored \in lists : pairs = pick_top_pairs(scored, top_pairs)
    /\ start_equity = StartEquity
    /\ args = NoArgs
    /\ ret = NoRet
    /\ Constructed

\* ranked lists cut to MaxScored pairs
Init == InitWith(ScoredLists(MaxScored))

\* every prefix of the ranking of all candidate pairs
InitWide == InitWith(ScoredLists(Len(Combinations)))

\* the ranking of all candidate pairs: three pairs are picked
InitFull == InitWith({Combinations})

Failures == <<failed_cycles, cycle_failed>>

History == <<Failures, cycle>>

\* what main() sets before the loop and no step of the controller assigns
Setup == <<pairs, args, ret>>

Config == <<Setup, start_equity>>

Fields == <<positions, cooldown_until_ts, halted, consecutive_errors>>

EnterLocals == <<side_a, side_b, attempt, ticket_a, ticket_b>>

ExitLocals == <<pnl_a, pnl_b>>

\* the locals of an iteration go out of scope
DropLocals ==
    /\ cur' = NoPair
    /\ action' = ""
    /\ side_a' = ""
    /\ side_b' = ""
    /\ attempt' = 0
    /\ ticket_a' = 0
    /\ ticket_b' = 0
    /\ pnl_a' = 0
    /\ pnl_b' = 0
    /\ calls' = NoCalls

----------------------------------------------------------------------------
(* main(): the polling loop between two step() calls *)

\* time passes: the poll sleep, the back-off sleeps, the remote calls
Clock(ticks) ==
    /\ pc # "crashed"
    /\ now < ticks * CooldownMinutes
    /\ now' = now + CooldownMinutes
    /\ UNCHANGED <<Config, Fields, pc, todo, cur, action, EnterLocals, ExitLocals, calls, History>>

Tick == Clock(MaxTicks)

\* the same over the short run
TickShort == Clock(ShortTicks)

\* the last minute of the long run
HoldEnd == max_hold_minutes + Overrun

\* the long run: max_hold_minutes pass at once, then the rest
TickHold ==
    /\ pc # "crashed"
    /\ now < HoldEnd
    /\ now' = IF now < max_hold_minutes THEN max_hold_minutes ELSE HoldEnd
    /\ UNCHANGED <<Config, Fields, pc, todo, cur, action, EnterLocals, ExitLocals, calls, History>>

\* report(): prints the count and is_trading_allowed(); account_info() may raise
Report ==
    /\ pc = "idle"
    /\ \/ pc' = "crashed" /\ start_equity' = start_equity
       \/ /\ pc' = "idle"
          /\ \E equity \in EquityVals :
                start_equity' = start_equity_after(start_equity, equity)
    /\ UNCHANGED <<Setup, Fields, now, todo, cur, action, EnterLocals, ExitLocals, calls, History>>

----------------------------------------------------------------------------
(* step(), lines 166-171 *)

\* the cooldown test left out
CooldownActive_Ignored(checking_entry) == FALSE

\* _can_trade, line 41
CooldownActive(checking_entry) == checking_entry /\ now < cooldown_until_ts

\* the halted test left out
RiskConsulted_NoHaltCheck(checking_entry) == ~CooldownActive(checking_entry)

\* _can_trade, lines 37-44: whether it gets as far as asking the risk manager
RiskConsulted(checking_entry) == ~halted /\ ~CooldownActive(checking_entry)

\* _can_trade(False) with halted set: step() returns at once
StepHalted ==
    /\ pc = "idle"
    /\ ~RiskConsulted(FALSE)
    /\ UNCHANGED vars

\* _can_trade(False): account_info() raises, outside the try of step()
StepRaise ==
    /\ pc = "idle"
    /\ RiskConsulted(FALSE)
    /\ pc' = "crashed"
    /\ UNCHANGED <<Config, Fields, now, todo, cur, action, EnterLocals, ExitLocals, calls, History>>

\* _can_trade(False): the risk manager says no
StepRiskHalt ==
    /\ pc = "idle"
    /\ RiskConsulted(FALSE)
    /\ \E equity \in EquityVals, total_today \in PnlTodayVals :
          /\ is_trading_allowed(equity, total_today) # "OK"
          /\ start_equity' = start_equity_after(start_equity, equity)
    /\ halted' = TRUE
    /\ UNCHANGED <<Setup, positions, cooldown_until_ts, consecutive_errors, now, pc,
                   todo, cur, action, EnterLocals, ExitLocals, calls, History>>

\* the whole list whatever is open
pairs_to_check_Always == pairs

\* line 171
pairs_to_check ==
    IF Len(positions) >= max_open_positions THEN Keys(positions) ELSE pairs

\* _can_trade(False) passes: the loop over pairs_to_check starts
StepBegin ==
    /\ pc = "idle"
    /\ RiskConsulted(FALSE)
    /\ \E equity \in EquityVals, total_today \in PnlTodayVals :
          /\ is_trading_allowed(equity, total_today) = "OK"
          /\ start_equity' = start_equity_after(start_equity, equity)
    /\ todo' = pairs_to_check
    /\ cycle' = [open |-> Keys(positions), evaluated |-> <<>>]
    /\ pc' = "loop"
    /\ UNCHANGED <<Setup, Fields, now, cur, action, EnterLocals, ExitLocals, calls, Failures>>

\* the for loop is exhausted: step() returns
StepEnd ==
    /\ pc = "loop"
    /\ todo = <<>>
    /\ pc' = "idle"
    /\ cycle_failed' = FALSE
    /\ failed_cycles' = IF cycle_failed THEN failed_cycles ELSE 0
    /\ cycle' = NoCycle
    /\ UNCHANGED <<Config, Fields, now, todo, cur, action, EnterLocals, ExitLocals, calls>>

----------------------------------------------------------------------------
(* step(), lines 173-194: one iteration, up to the dispatch on action *)

\* _compute_signal or fetch_last raises
EvalRaise ==
    /\ pc = "loop"
    /\ todo # <<>>
    /\ cur' = Head(todo)
    /\ todo' = Tail(todo)
    /\ cycle' = [cycle EXCEPT !.evaluated = Append(@, Head(todo))]
    /\ pc' = "except"
    /\ UNCHANGED <<Config, Fields, now, action, EnterLocals, ExitLocals, calls, Failures>>

Dispatch(key, act) ==
    IF act = "EXIT" /\ HasPosition(positions, key) THEN "exit_a"
    ELSE IF IsEnter(act) /\ ~HasPosition(positions, key) THEN "gate"
    ELSE "iter_end"

Evaluate ==
    /\ pc = "loop"
    /\ todo # <<>>
    /\ cur' = Head(todo)
    /\ todo' = Tail(todo)
    /\ \E len_a \in LenVals, len_b \in LenVals, regime_ok \in BOOLEAN, z \in ZTenths :
          /\ action' = _compute_signal(Head(todo), len_a, len_b, regime_ok, Tenths(z), now)
          /\ pc' = Dispatch(Head(todo), action')
          /\ calls' = [calls EXCEPT !.short = len_a < MinPoints \/ len_b < MinPoints]
    /\ cycle' = [cycle EXCEPT !.evaluated = Append(@, Head(todo))]
    /\ UNCHANGED <<Config, Fields, now, EnterLocals, ExitLocals, Failures>>

----------------------------------------------------------------------------
(* _can_trade(checking_entry=True), line 192 *)

\* halted, or the cooldown is running: no entry, the iteration goes on
GateBlocked ==
    /\ pc = "gate"
    /\ ~RiskConsulted(TRUE)
    /\ pc' = "iter_end"
    /\ UNCHANGED <<Config, Fields, now, todo, cur, action, EnterLocals, ExitLocals, calls, History>>

\* account_info() raises inside is_trading_allowed()
GateRaise ==
    /\ pc = "gate"
    /\ RiskConsulted(TRUE)
    /\ pc' = "except"
    /\ UNCHANGED <<Config, Fields, now, todo, cur, action, EnterLocals, ExitLocals, calls, History>>

\* the risk manager says no: halted is set, no entry
GateRiskHalt ==
    /\ pc = "gate"
    /\ RiskConsulted(TRUE)
    /\ \E equity \in EquityVals, total_today \in PnlTodayVals :
          /\ is_trading_allowed(equity, total_today) # "OK"
          /\ start_equity' = start_equity_after(start_equity, equity)
    /\ halted' = TRUE
    /\ pc' = "iter_end"
    /\ UNCHANGED <<Setup, positions, cooldown_until_ts, consecutive_errors, now,
                   todo, cur, action, EnterLocals, ExitLocals, calls, History>>

\* symbol_info() of a leg: None for an unknown instrument, else its tick parameters
SymbolInfos == [known : BOOLEAN, tick_size : {-1, 0, 1}, tick_value : {-1, 0, 1}]

\* fetch_last() of a leg, in hundredths
LastPrices == {0, 100}

\* _live_enter, lines 107-108: the stop price handed to the sizing, pa * 0.95
StopFor(price) == (price * 95) \div 100

\* mt5_bridge.py, lines 181-196: the error calc_volume_for_risk raises, or "ok"
\* when it gets through to the volume
calc_volume_for_risk(info, entry_price, sl_price) ==
    IF ~info.known THEN "symbol"
    ELSE IF Abs(entry_price - sl_price) <= 0 THEN "distance"
    ELSE IF info.tick_size <= 0 \/ info.tick_value <= 0 THEN "tick"
    ELSE "ok"

\* what the sizing of one leg can come to
Sizings ==
    {calc_volume_for_risk(info, price, StopFor(price)) :
        info \in SymbolInfos, price \in LastPrices}

\* the error caught inside _live_enter, the legs opened all the same
AfterSizing_Swallowed(sized) == "enter_a"

\* lines 107-113: an error of the sizing leaves _live_enter before the loop
AfterSizing(sized) == IF sized = "ok" THEN "enter_a" ELSE "except"

\* _live_enter starts: the sides, then the sizing of leg A and of leg B
GateAllowed ==
    /\ pc = "gate"
    /\ RiskConsulted(TRUE)
    /\ \E equity \in EquityVals, total_today \in PnlTodayVals :
          /\ is_trading_allowed(equity, total_today) = "OK"
          /\ start_equity' = start_equity_after(start_equity, equity)
    /\ side_a' = SideA(action)
    /\ side_b' = SideB(action)
    /\ \E size_a \in Sizings, size_b \in Sizings :
          LET sized == IF size_a # "ok" THEN size_a ELSE size_b
          IN  /\ calls' = [calls EXCEPT !.sizing = sized]
              /\ pc' = AfterSizing(sized)
    /\ attempt' = IF pc' = "enter_a" THEN 1 ELSE 0
    /\ ticket_a' = 0
    /\ ticket_b' = 0
    /\ UNCHANGED <<Setup, Fields, now, todo, cur, action, ExitLocals, History>>

----------------------------------------------------------------------------
(* _live_enter, lines 113-138 *)

\* the Position recorded whatever the tickets are
ShouldRecord_Always(ta, tb) == TRUE

\* line 131
ShouldRecord(ta, tb) == ta # 0 /\ tb # 0

\* lines 131-138: the Position is recorded, or the pair is given up
Record(ta, tb) ==
    /\ positions' = IF ShouldRecord(ta, tb)
                    THEN Put(positions, cur,
                             Position(cur[1], cur[2], side_a, side_b, now, ta, tb))
                    ELSE positions
    /\ pc' = "iter_end"

\* range(1, max_retries) in place of range(1, max_retries + 1)
LastAttempt_OffByOne(k) == k >= max_retries - 1

\* line 113: attempt k is the last one of range(1, max_retries + 1)
LastAttempt(k) == k >= max_retries

\* line 129 and the loop head: the next attempt, or the end of the loop
Retry(ta, tb) ==
    IF LastAttempt(attempt)
    THEN attempt' = attempt /\ Record(ta, tb)
    ELSE attempt' = attempt + 1 /\ pc' = "enter_a" /\ positions' = positions

\* line 114: open leg A
EnterOpenA ==
    /\ pc = "enter_a"
    /\ \E res \in Outcomes :
          /\ calls' = [calls EXCEPT !.open_a = @ + 1,
                                    !.live_a = IF res = "ok" THEN @ + 1 ELSE @]
          /\ \/ /\ res = "ok"
                /\ ticket_a' = Ticket(cur[1])
                /\ pc' = "enter_b"
                /\ UNCHANGED <<attempt, positions>>
             \/ /\ res = "fail"
                /\ ticket_a' = ticket_a
                /\ Retry(ticket_a, ticket_b)
             \/ /\ res = "raise"
                /\ pc' = "except"
                /\ UNCHANGED <<ticket_a, attempt, positions>>
    /\ UNCHANGED <<Config, cooldown_until_ts, halted, consecutive_errors, now, todo,
                   cur, action, side_a, side_b, ticket_b, ExitLocals, History>>

\* line 119: open leg B; on success the loop is left and the Position recorded
EnterOpenB ==
    /\ pc = "enter_b"
    /\ \E res \in Outcomes :
          /\ calls' = [calls EXCEPT !.open_b = @ + 1,
                                    !.live_b = IF res = "ok" THEN @ + 1 ELSE @]
          /\ \/ /\ res = "ok"
                /\ ticket_b' = Ticket(cur[2])
                /\ Record(ticket_a, ticket_b')
             \/ /\ res = "fail"
                /\ pc' = "enter_close"
                /\ UNCHANGED <<ticket_b, positions>>
             \/ /\ res = "raise"
                /\ pc' = "except"
                /\ UNCHANGED <<ticket_b, positions>>
    /\ UNCHANGED <<Config, cooldown_until_ts, halted, consecutive_errors, now, todo,
                   cur, action, side_a, side_b, attempt, ticket_a, ExitLocals, History>>

\* close_position_by_ticket, lines 103-137: the lookup finds the position
\* whenever the call gets past line 105, to the order or to an exception
CloseAnswers == {<<res, found>> \in Outcomes \X BOOLEAN : res # "fail" => found}

\* the leg is left open when the position is found and the order is not done;
\* it is gone when the order is done, or when the lookup finds nothing
StillOpen(res, found) == res # "ok" /\ found

\* lines 125-126: leg B failed, leg A is closed by ticket, whatever the close answers
EnterCloseA ==
    /\ pc = "enter_close"
    /\ \E <<res, found>> \in CloseAnswers :
          /\ calls' = [calls EXCEPT !.closed = Append(@, ticket_a),
                                    !.live_a = IF StillOpen(res, found) THEN @ ELSE @ - 1]
          /\ \/ /\ res \in {"ok", "fail"}
                /\ ticket_a' = 0
                /\ Retry(0, ticket_b)
             \/ /\ res = "raise"
                /\ pc' = "except"
                /\ UNCHANGED <<ticket_a, attempt, positions>>
    /\ UNCHANGED <<Config, cooldown_until_ts, halted, consecutive_errors, now, todo,
                   cur, action, side_a, side_b, ticket_b, ExitLocals, History>>

----------------------------------------------------------------------------
(* _live_exit, lines 140-162 *)

\* the profit of a close that was not ok counted too
Pnl_Uncounted(res, profit) == profit

\* lines 149-150: the profit a close result counts for
Pnl(res, profit) == IF res = "ok" THEN profit ELSE 0

\* the close call addressed to ticket, and what it answered
Closed(ticket, res, profit) ==
    [calls EXCEPT !.closed = Append(@, ticket),
                  !.results = IF res = "raise" THEN @ ELSE Append(@, Result(res, profit))]

\* line 145: close leg A by ticket
ExitCloseA ==
    /\ pc = "exit_a"
    /\ \E res \in Outcomes, profit \in Profits :
          /\ calls' = Closed(PositionOf(positions, cur).ticket_a, res, profit)
          /\ IF res = "raise"
             THEN pc' = "except" /\ pnl_a' = pnl_a
             ELSE pc' = "exit_b" /\ pnl_a' = Pnl(res, profit)
    /\ UNCHANGED <<Config, Fields, now, todo, cur, action, EnterLocals, pnl_b, History>>

\* lines 146-162: close leg B by ticket, start the cooldown on a loss, drop the entry
ExitCloseB ==
    /\ pc = "exit_b"
    /\ \E res \in Outcomes, profit \in Profits :
          /\ calls' = Closed(PositionOf(positions, cur).ticket_b, res, profit)
          /\ IF res = "raise"
             THEN /\ pc' = "except"
                  /\ UNCHANGED <<pnl_b, cooldown_until_ts, positions>>
             ELSE /\ pc' = "iter_end"
                  /\ pnl_b' = Pnl(res, profit)
                  /\ cooldown_until_ts' = IF pnl_a + pnl_b' < 0
                                          THEN now + CooldownMinutes
                                          ELSE cooldown_until_ts
                  /\ positions' = Without(positions, cur)
    /\ UNCHANGED <<Config, halted, consecutive_errors, now, todo, cur, action,
                   EnterLocals, pnl_a, History>>

----------------------------------------------------------------------------
(* step(), lines 196-204: the end of an iteration *)

\* the counter left as it is
ErrorsAfterSuccess_Kept(n) == n

\* line 196: the counter after an iteration that raised nothing
ErrorsAfterSuccess(n) == 0

IterEnd ==
    /\ pc = "iter_end"
    /\ consecutive_errors' = ErrorsAfterSuccess(consecutive_errors)
    /\ pc' = "loop"
    /\ DropLocals
    /\ UNCHANGED <<Config, positions, cooldown_until_ts, halted, now, todo, History>>

\* ">" in place of ">="
TooManyErrors_Strict(n) == n > MaxErrors

\* line 201
TooManyErrors(n) == n >= MaxErrors

\* halted assigned the comparison, in place of set when it is true
HaltedAfterError_Assigned(h, n) == n >= MaxErrors

\* lines 201-202: what halted is after the handler has counted n errors
HaltedAfterError(h, n) == h \/ TooManyErrors(n)

\* lines 198-204
Except ==
    /\ pc = "except"
    /\ consecutive_errors' = consecutive_errors + 1
    /\ halted' = HaltedAfterError(halted, consecutive_errors')
    /\ pc' = "loop"
    /\ DropLocals
    /\ cycle_failed' = TRUE
    /\ failed_cycles' = IF cycle_failed \/ failed_cycles >= MaxErrors
                        THEN failed_cycles ELSE failed_cycles + 1
    /\ UNCHANGED <<Config, positions, cooldown_until_ts, now, todo, cycle>>

----------------------------------------------------------------------------

\* a step of the controller: report(), or a step of step()
Work ==
    \/ Report
    \/ StepHalted
    \/ StepRaise
    \/ StepRiskHalt
    \/ StepBegin
    \/ StepEnd
    \/ EvalRaise
    \/ Evaluate
    \/ GateBlocked
    \/ GateRaise
    \/ GateRiskHalt
    \/ GateAllowed
    \/ EnterOpenA
    \/ EnterOpenB
    \/ EnterCloseA
    \/ ExitCloseA
    \/ ExitCloseB
    \/ IterEnd
    \/ Except

Next ==
    \/ Tick
    \/ Work

Spec == Init /\ [][Next]_vars

SpecWide == InitWide /\ [][Next]_vars

NextShort ==
    \/ TickShort
    \/ Work

\* the short run on the pairs picked from the whole ranking
SpecFull == InitFull /\ [][NextShort]_vars

NextHold ==
    \/ TickHold
    \/ Work

\* the long run: main() keeps polling (while True, lines 60-67) and time passes
SpecHold == Init /\ [][NextHold]_vars /\ WF_vars(TickHold) /\ WF_vars(Work)

TypeOK ==
    /\ halted \in BOOLEAN
    /\ consecutive_errors \in Nat
    /\ now \in Nat
    /\ pc \in {"idle", "loop", "gate", "enter_a", "enter_b", "enter_close",
               "exit_a", "exit_b", "iter_end", "except", "crashed"}

----------------------------------------------------------------------------
(* Unit runs: one call of a function of the program on arguments drawn     *)
(* from a bounded set.  The controller stays as constructed.               *)

Controller == <<Fields, now, pc, todo, cur, action, EnterLocals, ExitLocals, calls, History>>

\* the pairs of the first m candidates, as combinations() orders each pair
PairsOf(m) ==
    {p \in {<<Candidates[i], Candidates[j]>> : i \in 1..m, j \in 1..m} :
        IndexOf(p[1]) < IndexOf(p[2])}

\* score_pairs returns each pair at most once, in any order of scores
RankedLists(m, maxlen) ==
    {s \in UNION {[1..n -> PairsOf(m)] : n \in 0..maxlen} :
        \A i, j \in DOMAIN s : i # j => s[i] # s[j]}

pick_top_pairs_Args ==
    {[fn |-> "pick_top_pairs", scored |-> s, k |-> k] :
        s \in RankedLists(MaxInstruments, MaxRanked), k \in 0..MaxK}

InitPick ==
    /\ args \in pick_top_pairs_Args
    /\ ret = NoRet
    /\ pairs = <<>>
    /\ start_equity = StartEquity
    /\ Constructed

Call_pick_top_pairs ==
    /\ args.fn = "pick_top_pairs"
    /\ ret = NoRet
    /\ ret' = [fn |-> args.fn, value |-> pick_top_pairs(args.scored, args.k)]
    /\ UNCHANGED <<pairs, start_equity, args, Controller>>

NextPick == Call_pick_top_pairs

SpecPick == InitPick /\ [][NextPick]_vars

\* account equity and today's P&L: no loss, and every amount near the limit
is_trading_allowed_Args ==
    {[fn |-> "is_trading_allowed", equity |-> e, total_today |-> t] :
        e \in {StartEquity + 1, StartEquity}
                \cup {StartEquity - max_total_drawdown_usd + d : d \in -Margin..Margin},
        t \in {1, 0} \cup {d - max_daily_loss_usd : d \in -Margin..Margin}}

\* main() has taken the snapshot (line 39)
InitRisk ==
    /\ args \in is_trading_allowed_Args
    /\ ret = NoRet
    /\ pairs = <<>>
    /\ start_equity = StartEquity
    /\ Constructed

Call_is_trading_allowed ==
    /\ args.fn = "is_trading_allowed"
    /\ ret = NoRet
    /\ ret' = [fn |-> args.fn, value |-> is_trading_allowed(args.equity, args.total_today)]
    /\ start_equity' = start_equity_after(start_equity, args.equity)
    /\ UNCHANGED <<pairs, args, Controller>>

NextRisk == Call_is_trading_allowed

SpecRisk == InitRisk /\ [][NextRisk]_vars

\* n log prices: level 0, then the last m of them at u, the very last at v
Shape(n, m, u, v) ==
    [i \in 1..n |-> IF i = n THEN v ELSE IF i > n - m THEN u ELSE 0]

Shapes(n) ==
    {Shape(n, m, u, v) : m \in {1, 2, n \div 2},
                         u \in -MaxMove..MaxMove, v \in -MaxMove..MaxMove}

Mirror(s) == [i \in DOMAIN s |-> -s[i]]

\* two instruments of the same closes, or of mirrored log prices
series_Args ==
    {[fn |-> "_compute_signal", key |-> <<Candidates[1], Candidates[2]>>,
      la |-> s, lb |-> IF same THEN s ELSE Mirror(s)] :
        s \in UNION {Shapes(n) : n \in {MinPoints - 1, MinPoints, MinPoints + 1}},
        same \in BOOLEAN}

InitSeries ==
    /\ args \in series_Args
    /\ ret = NoRet
    /\ pairs = <<args.key>>
    /\ start_equity = StartEquity
    /\ Constructed

Call_compute_signal ==
    /\ args.fn = "_compute_signal"
    /\ ret = NoRet
    /\ ret' = [fn |-> args.fn] @@ signal_of(args.key, args.la, args.lb, now)
    /\ UNCHANGED <<pairs, start_equity, args, Controller>>

NextSeries == Call_compute_signal

SpecSeries == InitSeries /\ [][NextSeries]_vars

\* _compute_signal with what its collaborators answer drawn: the lengths
\* of the two series, the regime filter's answer, the z-score in tenths
decision_Args ==
    {[fn |-> "_compute_signal", key |-> <<Candidates[1], Candidates[2]>>,
      len_a |-> m, len_b |-> n, regime_ok |-> r, z |-> z] :
        m \in LenVals, n \in LenVals, r \in BOOLEAN, z \in ZTenths}

\* no Position for the pair, or one entered at time 0; the clock before, at
\* and after the time stop
InitDecision ==
    /\ args \in decision_Args
    /\ ret = NoRet
    /\ pairs = <<args.key>>
    /\ start_equity = StartEquity
    /\ positions \in {<<>>, <<Position(args.key[1], args.key[2], "SELL", "BUY", 0,
                                        Ticket(args.key[1]), Ticket(args.key[2]))>>}
    /\ now \in {0, max_hold_minutes, max_hold_minutes + 1}
    /\ Idle

Call_compute_signal_drawn ==
    /\ args.fn = "_compute_signal"
    /\ ret = NoRet
    /\ ret' = [fn |-> args.fn,
               action |-> _compute_signal(args.key, args.len_a, args.len_b,
                                          args.regime_ok, Tenths(args.z), now)]
    /\ UNCHANGED <<pairs, start_equity, args, Controller>>

\* two series, each one point short of ols_beta's minimum or at it
ols_beta_Args ==
    {[fn |-> "ols_beta", y |-> y, x |-> x] :
        y \in UNION {Shapes(n) : n \in {MinBetaPoints - 1, MinBetaPoints}},
        x \in UNION {Shapes(n) : n \in {MinBetaPoints - 1, MinBetaPoints}}}

InitBeta ==
    /\ args \in ols_beta_Args
    /\ ret = NoRet
    /\ pairs = <<>>
    /\ start_equity = StartEquity
    /\ Constructed

Call_ols_beta ==
    /\ args.fn = "ols_beta"
    /\ ret = NoRet
    /\ ret' = [fn |-> args.fn, value |-> ols_beta(args.y, args.x)]
    /\ UNCHANGED <<pairs, start_equity, args, Controller>>

NextBeta == Call_ols_beta

SpecBeta == InitBeta /\ [][NextBeta]_vars

NextDecision == Call_compute_signal_drawn

SpecDecision == InitDecision /\ [][NextDecision]_vars

----------------------------------------------------------------------------
(* Properties *)

EnterPcs == {"enter_a", "enter_b", "enter_close"}

\* _live_enter ran its loop in the current iteration
EnterRan == attempt > 0

(* C1: the open-position table never holds more than max_open_positions    *)
(* entries.                                                                *)
C1_AtMostMaxOpen == Len(positions) <= max_open_positions

\* the sides the decision table gives the two ENTER variants
TableSideA(act) == IF act = "ENTER_LONGA_SHORTB" THEN "BUY" ELSE "SELL"

TableSideB(act) == IF act = "ENTER_LONGA_SHORTB" THEN "SELL" ELSE "BUY"

(* C2: the legs are opened with the sides of the signal's direction (z low: *)
(* A BUY, B SELL; z high: A SELL, B BUY), and the Position recorded by the *)
(* entry holds the same sides.                                             *)
C2_SidesFollowSignal ==
    /\ pc \in EnterPcs =>
          /\ side_a = TableSideA(action)
          /\ side_b = TableSideB(action)
    /\ (pc = "iter_end" /\ EnterRan /\ HasPosition(positions, cur)) =>
          /\ PositionOf(positions, cur).side_a = TableSideA(action)
          /\ PositionOf(positions, cur).side_b = TableSideB(action)

(* C3: every Position of the table has two nonzero tickets; _live_enter    *)
(* leaves a Position for the pair exactly when it ends with both legs      *)
(* opened in one attempt (the leg-A open of the last attempt, then one     *)
(* successful leg-B open), and that Position holds those two tickets.      *)
C3_BothTicketsOrNothing ==
    /\ \A i \in DOMAIN positions :
          positions[i].ticket_a # 0 /\ positions[i].ticket_b # 0
    /\ (pc \in {"iter_end", "except"} /\ EnterRan) =>
          (HasPosition(positions, cur)
              <=> (pc = "iter_end" /\ ticket_a # 0 /\ ticket_b # 0))
    /\ (pc = "iter_end" /\ EnterRan /\ HasPosition(positions, cur)) =>
          /\ PositionOf(positions, cur).ticket_a = ticket_a
          /\ PositionOf(positions, cur).ticket_b = ticket_b
          /\ calls.open_a = attempt
          /\ calls.open_b = Len(calls.closed) + 1

\* a Position recorded by the second attempt, after a failed leg B
C3_Witness ==
    /\ pc = "iter_end"
    /\ attempt = 2
    /\ calls.open_b = 2
    /\ HasPosition(positions, cur)

\* _live_enter has ended: every leg-A open succeeded, every leg-B open failed
C4_LegBAlwaysFailed ==
    /\ pc = "iter_end"
    /\ EnterRan
    /\ calls.open_a = calls.open_b
    /\ ticket_b = 0

C4_State ==
    /\ C4_LegBAlwaysFailed =>
          /\ attempt = 3
          /\ calls.open_a = 3
          /\ calls.open_b = 3
          /\ calls.closed = <<Ticket(cur[1]), Ticket(cur[1]), Ticket(cur[1])>>
          /\ ~HasPosition(positions, cur)
    /\ pc = "enter_a" =>
          /\ ticket_a = 0
          /\ Len(calls.closed) = calls.open_b
    /\ pc = "enter_close" =>
          /\ ticket_a = Ticket(cur[1])
          /\ Len(calls.closed) = calls.open_b - 1

C4_Step ==
    (pc \in EnterPcs /\ pc' \in EnterPcs \cup {"iter_end"} /\ ticket_b' = 0)
        => UNCHANGED <<positions, cooldown_until_ts, halted>>

(* C4: when leg A opens and leg B fails on every attempt, _live_enter      *)
(* makes exactly 3 attempts, closes leg A by its ticket after each failed  *)
(* leg-B open and before the next leg-A open, records no Position, and     *)
(* leaves the table, the cooldown and halted as they were (so the pair can *)
(* be entered in a later cycle).                                           *)
C4_LegBFailsThrice == [][C4_State' /\ C4_Step]_vars

C4_Witness ==
    /\ C4_LegBAlwaysFailed
    /\ Len(calls.closed) = 3
    /\ Len(positions) = 1

C5_Step ==
    /\ Len(positions') > Len(positions) => now' >= cooldown_until_ts'
    /\ (pc = "gate" /\ pc' = "enter_a") => now >= cooldown_until_ts
    /\ (pc = "exit_b" /\ pc' = "iter_end" /\ pnl_a' + pnl_b' < 0)
          => cooldown_until_ts' = now + CooldownMinutes
    /\ cooldown_until_ts' >= cooldown_until_ts
    /\ now' >= now
    /\ (pc = "loop" /\ action' = "EXIT") => pc' = "exit_a"
    /\ (pc = "exit_a" /\ pc' \notin {"exit_a", "except"}) => pc' = "exit_b"
    /\ (pc = "exit_b" /\ pc' \notin {"exit_b", "except"})
          => /\ pc' = "iter_end"
             /\ ~HasPosition(positions', cur)
             /\ Len(calls'.closed) = 2

(* C5: a losing exit sets the cooldown to 30 minutes after it; the cooldown *)
(* never moves back; no entry starts and no Position is added while the    *)
(* clock is before it; an EXIT signal is dispatched to the exit whatever   *)
(* the cooldown is, and the exit, unless a close raises, issues both       *)
(* closes and removes the Position.                                        *)
C5_CooldownBlocksEntriesOnly == [][C5_Step]_vars

\* an exit that made no loss has run to its end inside a cooldown window
C5_Witness ==
    /\ pc = "iter_end"
    /\ action = "EXIT"
    /\ pnl_a + pnl_b >= 0
    /\ now < cooldown_until_ts
    /\ ~HasPosition(positions, cur)

(* C6: once halted is true no step of the controller makes it false.       *)
C6_HaltedLatch == [][halted => halted']_vars

\* halted, and the error handler is about to run
C6_Witness == halted /\ pc = "except"

\* a broker open or close call is issued by the step
BrokerCall ==
    \/ calls'.open_a > calls.open_a
    \/ calls'.open_b > calls.open_b
    \/ Len(calls'.closed) > Len(calls.closed)

(* C7: from the moment halted is true, no broker call is issued and the    *)
(* open-position table does not change.                                    *)
C7_NothingAfterHalt == [][halted => (~BrokerCall /\ positions' = positions)]_vars

C8_Step ==
    /\ (pc = "idle" /\ halted) =>
          /\ pc' \in {"idle", "crashed"}
          /\ halted'
          /\ UNCHANGED <<positions, cooldown_until_ts, consecutive_errors,
                         todo, cur, action, calls>>
    /\ (pc = "idle" /\ ~halted /\ halted') =>
          /\ pc' = "idle"
          /\ UNCHANGED <<positions, cooldown_until_ts, consecutive_errors,
                         todo, cur, action, calls>>

C9_EighthFailingCycle ==
    /\ failed_cycles >= 8 => halted
    /\ (halted /\ consecutive_errors >= 8) => failed_cycles >= 8

C9_State ==
    /\ consecutive_errors >= 8 => halted
    /\ (Len(pairs) = 1 /\ pc = "idle") => failed_cycles = consecutive_errors

C9_Step ==
    /\ (pc = "except" /\ ~halted /\ halted') => consecutive_errors' = 8
    /\ (pc = "idle" /\ halted) =>
          /\ pc' \in {"idle", "crashed"}
          /\ UNCHANGED <<cur, action, todo>>

(* C9, amended: the controller is halted by errors at the 8th consecutive  *)
(* pair iteration that raised, not earlier and not later; with a list of   *)
(* one pair that is the 8th consecutive step() call that raised; and a     *)
(* step() call that finds halted set evaluates nothing.                    *)
C9_EighthFailingIteration == [][C9_State' /\ C9_Step]_vars

\* halted by the 8th failing iteration, in the 4th failing step() call
C9_Witness == halted /\ consecutive_errors = 8 /\ failed_cycles = 4

(* C10: no two Positions of the table share an instrument, and every       *)
(* Position is for a pair of the list pick_top_pairs returned.             *)
C10_DisjointInstruments ==
    /\ \A i, j \in DOMAIN positions :
          i # j => {positions[i].a, positions[i].b}
                      \cap {positions[j].a, positions[j].b} = {}
    /\ \A i \in DOMAIN positions :
          /\ positions[i].a # positions[i].b
          /\ \E k \in DOMAIN pairs : pairs[k] = Key(positions[i])

\* two Positions open at once
C10_Witness == Len(positions) = 2

Instruments(p) == {p[1], p[2]}

(* C11: pick_top_pairs never returns two pairs that share an instrument,   *)
(* whatever the ranked list and k are.                                     *)
C11_PickedDisjoint ==
    ret.fn = "pick_top_pairs" =>
        \A i, j \in DOMAIN ret.value :
            i # j => Instruments(ret.value[i]) \cap Instruments(ret.value[j]) = {}

\* two pairs picked, a pair that reuses an instrument skipped between them
C11_Witness ==
    /\ ret.fn = "pick_top_pairs"
    /\ Len(args.scored) = 3
    /\ ret.value = <<args.scored[1], args.scored[3]>>

\* the places of the list the greedy selection takes among the first i
RECURSIVE GreedyTaken(_, _, _)
GreedyTaken(scored, k, i) ==
    IF i = 0 THEN {}
    ELSE LET before == GreedyTaken(scored, k, i - 1)
             free == \A j \in before :
                        Instruments(scored[j]) \cap Instruments(scored[i]) = {}
         IN  IF free /\ Cardinality(before) < k THEN before \cup {i} ELSE before

Greedy(scored, k) ==
    LET taken == GreedyTaken(scored, k, Len(scored))
        Test(p) == \E i \in taken : scored[i] = p
    IN  SelectSeq(scored, Test)

(* C12: pick_top_pairs(scored, k) is the greedy selection in input order   *)
(* (a pair is taken iff no earlier taken pair claimed one of its           *)
(* instruments and fewer than k pairs are taken so far), so it has at most *)
(* k pairs, for every k >= 0.                                              *)
C12_GreedyAtMostK ==
    ret.fn = "pick_top_pairs" =>
        /\ ret.value = Greedy(args.scored, args.k)
        /\ Len(ret.value) <= args.k

(* C13: is_trading_allowed() answers not-allowed, kill switch, exactly     *)
(* when equity - start equity is more negative than minus the              *)
(* max-total-drawdown threshold; otherwise not-allowed, daily limit,       *)
(* exactly when today's realized plus floating P&L is more negative than   *)
(* minus the max-daily-loss threshold; otherwise allowed.                  *)
C13_Thresholds ==
    ret.fn = "is_trading_allowed" =>
        ret.value = IF args.equity - start_equity < -max_total_drawdown_usd
                    THEN "KILL_SWITCH"
                    ELSE IF args.total_today < -max_daily_loss_usd
                         THEN "DAILY_LIMIT"
                         ELSE "OK"

(* C14: once start_equity holds a value, no step of the polling loop       *)
(* (step(), report(), and is_trading_allowed() inside them) changes it,    *)
(* whatever equity the account reports.                                    *)
C14_SnapshotKept == [][start_equity # 0 => start_equity' = start_equity]_vars

\* the risk manager has refused at the start of a step(): the snapshot is
\* the one of startup
C14_Witness ==
    /\ pc = "idle"
    /\ halted
    /\ consecutive_errors = 0
    /\ start_equity = StartEquity

(* C15: for two instruments of identical price series of sufficient length *)
(* the hedge ratio is 1.0, the spread is zero at every point, the z-score  *)
(* is 0 and the action is no ENTER.                                        *)
C15_IdenticalSeries ==
    (ret.fn = "_compute_signal" /\ args.la = args.lb /\ Len(args.la) >= MinPoints) =>
        /\ ret.beta = One
        /\ \A i \in DOMAIN args.la : spread(args.la, args.lb, ret.beta)[i] = 0
        /\ ret.z = Zero
        /\ ~IsEnter(ret.action)

\* the action of the decision table, z in tenths, held in minutes
TableAction(len_a, len_b, open, regime_ok, z, held) ==
    IF len_a < 120 \/ len_b < 120 THEN "SKIP"
    ELSE IF ~open
         THEN IF ~regime_ok THEN "SKIP"
              ELSE IF z > 23 THEN "ENTER_LONGB_SHORTA"
              ELSE IF z < -23 THEN "ENTER_LONGA_SHORTB"
              ELSE "HOLD"
         ELSE IF held > 240 \/ (-5 < z /\ z < 5) THEN "EXIT" ELSE "HOLD"

(* C16: with at least 120 points per leg the action is the one of the      *)
(* decision table (no position: SKIP if the regime filter fails, else      *)
(* ENTER short-A/long-B if z > 2.3, ENTER long-A/short-B if z < -2.3, else *)
(* HOLD; open position: EXIT if held more than 240 minutes or |z| < 0.5,   *)
(* else HOLD, the regime filter never giving SKIP); with fewer than 120    *)
(* points on a leg it is SKIP.                                             *)
C16_DecisionTable ==
    ret.fn = "_compute_signal" =>
        ret.action = TableAction(args.len_a, args.len_b,
                                 HasPosition(positions, args.key), args.regime_ok, args.z,
                                 IF HasPosition(positions, args.key)
                                 THEN now - PositionOf(positions, args.key).entry_ts
                                 ELSE 0)

\* an open pair that fails the regime filter is told to exit on |z| < 0.5
C16_Witness ==
    /\ ret.fn = "_compute_signal"
    /\ ret.action = "EXIT"
    /\ ~args.regime_ok
    /\ now <= max_hold_minutes

\* n * (s[i] - mean(s))
Centred(s, i) == Len(s) * s[i] - Sum(s)

\* the least-squares slope of y on x: sum((y - my)(x - mx)) / sum((x - mx)^2)
OlsSlope(y, x) ==
    Frac(Sum([i \in DOMAIN x |-> Centred(y, i) * Centred(x, i)]),
         Sum([i \in DOMAIN x |-> Centred(x, i) * Centred(x, i)]))

NoVariance(s) == \A i \in DOMAIN s : s[i] = s[1]

(* C17: for two series of at least 50 points, x of non-zero variance,      *)
(* ols_beta(y, x) is the least-squares slope of y on x, so ols_beta(x, x)  *)
(* is 1.0; with fewer than 50 points in a series, or no variance in x, it  *)
(* returns exactly 1.0.                                                    *)
C17_OlsSlope ==
    ret.fn = "ols_beta" =>
        IF Len(args.y) >= 50 /\ Len(args.x) >= 50 /\ ~NoVariance(args.x)
        THEN /\ ret.value = OlsSlope(args.y, args.x)
             /\ args.y = args.x => ret.value = One
        ELSE ret.value = One

\* the realized profit a close result stands for: nothing when it failed
Realized(result) == IF result.ok THEN result.profit ELSE 0

C18_Step ==
    /\ (pc = "exit_a" /\ pc' # "exit_a") =>
          /\ calls'.closed = <<PositionOf(positions, cur).ticket_a>>
          /\ positions' = positions
          /\ cooldown_until_ts' = cooldown_until_ts
          /\ Len(calls'.results) = 1 => pc' = "exit_b"
    /\ (pc = "exit_b" /\ pc' # "exit_b") =>
          /\ calls'.closed = <<PositionOf(positions, cur).ticket_a,
                               PositionOf(positions, cur).ticket_b>>
          /\ Len(calls'.results) = 2 =>
                /\ pc' = "iter_end"
                /\ positions' = Without(positions, cur)
                /\ ~HasPosition(positions', cur)
                /\ cooldown_until_ts' =
                      IF Realized(calls'.results[1]) + Realized(calls'.results[2]) < 0
                      THEN now + CooldownMinutes
                      ELSE cooldown_until_ts

(* C18: the exit of a pair with a Position closes leg A by its ticket and  *)
(* then leg B by its ticket, leg B also when leg A's close answers not-ok; *)
(* when both closes have answered, ok or not, the Position is removed from *)
(* the table, and the cooldown is set (to 30 minutes from now) if and only *)
(* if the realized profits of the two legs, a failed close counting zero,  *)
(* sum to less than zero.                                                  *)
C18_ExitProtocol == [][C18_Step]_vars

\* leg A's close failed reporting a loss, leg B's close went through at
\* zero: the Position is gone and no cooldown was set
C18_Witness ==
    /\ pc = "iter_end"
    /\ action = "EXIT"
    /\ Len(calls.results) = 2
    /\ ~calls.results[1].ok /\ calls.results[1].profit < 0
    /\ calls.results[2].ok /\ calls.results[2].profit = 0
    /\ ~HasPosition(positions, cur)
    /\ cooldown_until_ts = 0

\* the call of step() under way is past its first check
InCycle == pc \notin {"idle", "crashed"}

\* the call of step() under way found max_open_positions or more Positions open
ExitOnly == Len(cycle.open) >= max_open_positions

WasOpen(key) == \E i \in DOMAIN cycle.open : cycle.open[i] = key

\* C19: a call of step() that finds the count of open Positions at or above
\* max_open_positions evaluates only pairs that were open when it started and
\* leaves no Position open that was not; any other call that gets to its loop
\* evaluates the pairs of the list it was given, each once and in list order,
\* and returns only when none is left.
C19_WorkingSet ==
    InCycle =>
        IF ExitOnly
        THEN /\ \A i \in DOMAIN cycle.evaluated : WasOpen(cycle.evaluated[i])
             /\ \A i \in DOMAIN positions : WasOpen(Key(positions[i]))
        ELSE cycle.evaluated \o todo = pairs

\* an exit-only call has gone through its working set, and the list holds more
C19_Witness ==
    /\ pc = "loop"
    /\ todo = <<>>
    /\ ExitOnly
    /\ Len(cycle.evaluated) = Len(cycle.open)
    /\ Len(pairs) > Len(cycle.open)

\* the iteration under way ends in the handler of line 198
IterationFails == pc = "except" /\ pc' = "loop"

\* the iteration under way ends at line 196
IterationCompletes == pc = "iter_end" /\ pc' = "loop"

C20_Step ==
    /\ IterationFails =>
          /\ consecutive_errors' = consecutive_errors + 1
          /\ halted' = (halted \/ consecutive_errors' >= 8)
          /\ (~halted /\ halted') => consecutive_errors' = 8
    /\ IterationCompletes =>
          /\ consecutive_errors' = 0
          /\ halted' = halted
    /\ ~(IterationFails \/ IterationCompletes) =>
          consecutive_errors' = consecutive_errors

\* C20: consecutive_errors goes up by one in each pair iteration that raises
\* and back to zero in each pair iteration that raises nothing, and no other
\* step changes it; the error handler sets halted exactly when the counter
\* it has just incremented is at 8 or more, which for a controller not yet
\* halted is exactly 8.
C20_ErrorCounter == [][C20_Step]_vars

\* an iteration has raised and a later one of the same call has reset the counter
C20_Witness ==
    /\ pc = "loop"
    /\ cycle_failed
    /\ consecutive_errors = 0
    /\ ~halted

\* the sizing of the entry under way raised
SizingFailed == calls.sizing \in {"symbol", "distance", "tick"}

Occurrences(seq, x) == Cardinality({i \in DOMAIN seq : seq[i] = x})

\* nothing was sent to the broker, nothing was recorded, and the pair is not
\* evaluated again by this call of step()
C21_State ==
    SizingFailed =>
        /\ pc = "except"
        /\ calls.open_a = 0 /\ calls.open_b = 0 /\ calls.closed = <<>>
        /\ ~HasPosition(positions, cur)
        /\ Occurrences(cycle.evaluated, cur) = 1
        /\ Occurrences(todo, cur) = 0

\* the iteration ends in the handler, which counts one error
C21_Step ==
    (SizingFailed /\ pc' # pc) =>
        /\ pc' = "loop"
        /\ consecutive_errors' = consecutive_errors + 1
        /\ positions' = positions
        /\ todo' = todo

\* C21: when calc_volume_for_risk raises for a leg (unknown instrument, zero
\* stop distance, tick size or tick value not positive), no open or close
\* call has been issued for the pair, no Position is recorded for it, the
\* call of step() under way does not evaluate the pair again, and the
\* iteration adds exactly one to consecutive_errors.
C21_SizingErrorIsFatal == [][C21_State' /\ C21_Step]_vars

\* the sizing raised on the tick parameters, after an iteration that had already failed
C21_Witness == pc = "except" /\ calls.sizing = "tick" /\ consecutive_errors = 1

\* the pairs main() can hand to step()
Listed == {p \in {Combinations[i] : i \in DOMAIN Combinations} :
             \E i \in DOMAIN pick_top_pairs(Combinations, top_pairs) :
                pick_top_pairs(Combinations, top_pairs)[i] = p}

\* a Position for key is open, entered early enough to outlast max_hold_minutes
\* before the clock of the long run ends
OpenToOutlast(key) ==
    /\ HasPosition(positions, key)
    /\ PositionOf(positions, key).entry_ts + max_hold_minutes < HoldEnd

\* some open Position is to outlast max_hold_minutes
Outlasting == \E key \in Listed : OpenToOutlast(key)

\* an exception has been raised, in an iteration or outside the try of step()
Raised == pc \in {"except", "crashed"}

\* the feed returned fewer than 120 points for a leg of the pair evaluated
ShortData == calls.short

\* the first evaluation of an open pair held for more than max_hold_minutes
\* ends in EXIT, whatever the cooldown, the regime and the z-score are
TimeStop ==
    (/\ pc = "loop" /\ pc' # "loop" /\ pc' # "except"
     /\ HasPosition(positions, cur')
     /\ now - PositionOf(positions, cur').entry_ts > max_hold_minutes
     /\ ~calls'.short)
        => action' = "EXIT" /\ pc' = "exit_a"

\* C22: while the controller is not halted, the polling goes on, the feed
\* returns at least 120 points per leg and nothing raises, every open Position
\* is eventually removed from the table: the first evaluation of its pair once
\* it has been held for more than max_hold_minutes is an EXIT, and the exit
\* removes it, whatever the cooldown and the regime are.
C22_TimeStopLiveness ==
    /\ [][TimeStop]_vars
    /\ Outlasting ~> (~Outlasting \/ halted \/ Raised \/ ShortData)

\* a Position held past max_hold_minutes is being closed while the cooldown runs
C22_Witness ==
    /\ pc = "exit_b"
    /\ now - PositionOf(positions, cur).entry_ts > max_hold_minutes
    /\ now < cooldown_until_ts

\* _live_enter has returned to step() and there is no Position for the pair
ReturnedUnrecorded ==
    /\ pc = "iter_end"
    /\ calls.open_a > 0
    /\ ~HasPosition(positions, cur)

\* C23, as claimed: when _live_enter returns without recording a Position, no
\* leg it opened is still open at the broker, whatever the open and close calls
\* answered; and leg B's open is attempted only after leg A's open succeeded
\* in the same attempt.
C23_NoLegLeftOpen ==
    /\ ReturnedUnrecorded => calls.live_a = 0 /\ calls.live_b = 0
    /\ pc = "enter_b" =>
          /\ ticket_a # 0
          /\ calls.live_a >= 1
          /\ calls.open_a = attempt

============================================================================
